---- MODULE Spec2Model ----
(***************************************************************************)
(* Model of the two Figma utility scripts of the finance-test repository:  *)
(*   scripts/extract-figma-cards.js  (the card extractor) and              *)
(*   scripts/figma-fetch.js          (the full-file exporter).             *)
(*                                                                         *)
(* Conventions used for JavaScript values:                                 *)
(*   - an optional object (undefined / null) is <<>> when absent and <<v>> *)
(*     when present;                                                       *)
(*   - an optional number that the code only reads through `x || d` or     *)
(*     `x ? a : b` is the number, 0 standing for absent (both are falsy);  *)
(*   - an optional string read the same way is the string, "" for absent;  *)
(*   - a name that is slugified is a sequence of one-character strings;    *)
(*   - a colour channel, a float in [0,1], is the numerator of a fraction  *)
(*     over ChannelDen;                                                    *)
(*   - a JS value that may be a number or a string is a record [t, n, s];  *)
(*   - a JS Set is the sequence of its members in insertion order;         *)
(*   - a plain JS object iterated by Object.entries is the sequence of its *)
(*     [k, v] entries;                                                     *)
(*   - Date values (extractedAt, fetchedAt) are left out of file contents. *)
(* File-system writes are taken to succeed.                                *)
(***************************************************************************)
EXTENDS Integers, Sequences, FiniteSets, TLC

Range(s) == {s[i] : i \in 1..Len(s)}

\* ------------------------------------------------------------------------
\* JavaScript value helpers
\* ------------------------------------------------------------------------

JSNum(n) == [t |-> "number", n |-> n, s |-> ""]

JSStr(s) == [t |-> "string", n |-> 0, s |-> s]

\* Template-literal interpolation `${v}`.
Interp(v) == IF v.t = "number" THEN ToString(v.n) ELSE v.s

\* JSON.stringify of a number or string value.
JSONValue(v) == IF v.t = "number" THEN ToString(v.n) ELSE "\"" \o v.s \o "\""

\* Set.prototype.add on an insertion-ordered set.
SetAdd(set, x) == IF x \in Range(set) THEN set ELSE Append(set, x)

RECURSIVE Join(_)
\* The string made of a sequence of strings, in order.
Join(parts) == IF parts = <<>> THEN "" ELSE Head(parts) \o Join(Tail(parts))

\* Error.message built from a template literal: the sequence of the
\* template's pieces (literal text and interpolated values), in order.
ErrorOf(parts) == [message |-> parts]

\* ------------------------------------------------------------------------
\* scripts/extract-figma-cards.js : pure helpers
\* ------------------------------------------------------------------------

ChannelDen == 2 * 255

\* Math.round(c * 255) for the channel c / ChannelDen (halves round up).
Round255(c) == (2 * c * 255 + ChannelDen) \div (2 * ChannelDen)

HexDigits == <<"0","1","2","3","4","5","6","7","8","9","a","b","c","d","e","f">>

\* n.toString(16).padStart(2, '0') for 0 <= n <= 255.
Hex2(n) == HexDigits[(n \div 16) + 1] \o HexDigits[(n % 16) + 1]

figmaColorToCSS(figmaColor) ==
  IF figmaColor = <<>> THEN "transparent"
  ELSE LET c == figmaColor[1]
           alpha == IF c.a = "" THEN "1" ELSE c.a
       IN "rgba(" \o ToString(Round255(c.r)) \o ", " \o ToString(Round255(c.g))
             \o ", " \o ToString(Round255(c.b)) \o ", " \o alpha \o ")"

colorMap ==
  [h \in {"#ffffff", "#fcfcfc", "#030303", "#6b7280", "#374151", "#1f2937",
          "#f3f4f6", "#e5e7eb", "#3b82f6", "#1d4ed8", "#dbeafe", "#6366f1",
          "#8b5cf6", "#ec4899", "#f472b6", "#fce7f3"} |->
     CASE h = "#ffffff" -> "var(--white)"
       [] h = "#fcfcfc" -> "var(--white)"
       [] h = "#030303" -> "var(--black)"
       [] h = "#6b7280" -> "var(--gray-500)"
       [] h = "#374151" -> "var(--gray-700)"
       [] h = "#1f2937" -> "var(--gray-800)"
       [] h = "#f3f4f6" -> "var(--gray-100)"
       [] h = "#e5e7eb" -> "var(--gray-200)"
       [] h = "#3b82f6" -> "var(--blue-500)"
       [] h = "#1d4ed8" -> "var(--blue-700)"
       [] h = "#dbeafe" -> "var(--blue-100)"
       [] h = "#6366f1" -> "var(--indigo-500)"
       [] h = "#8b5cf6" -> "var(--violet-500)"
       [] h = "#ec4899" -> "var(--pink-500)"
       [] h = "#f472b6" -> "var(--pink-400)"
       [] h = "#fce7f3" -> "var(--pink-100)"]

\* The token lookup with the default of figmaColorToCSS for a missing colour.
MissingColorAsTransparent(color) ==
  IF color = <<>> THEN "transparent"
  ELSE LET c == color[1]
           hex == "#" \o Hex2(Round255(c.r)) \o Hex2(Round255(c.g)) \o Hex2(Round255(c.b))
       IN IF hex \in DOMAIN colorMap THEN colorMap[hex] ELSE figmaColorToCSS(color)

mapToDesignToken(color) ==
  IF color = <<>> THEN "var(--fg-text)"
  ELSE LET c == color[1]
           hex == "#" \o Hex2(Round255(c.r)) \o Hex2(Round255(c.g)) \o Hex2(Round255(c.b))
       IN IF hex \in DOMAIN colorMap THEN colorMap[hex] ELSE figmaColorToCSS(color)

\* Object.entries order of the record getTextStyle returns.
getTextStyle(node) ==
  IF node.style = <<>> THEN <<>>
  ELSE LET style == node.style[1] IN
    << [k |-> "fontFamily",
        v |-> JSStr(IF style.fontFamily # "" THEN style.fontFamily
                    ELSE "var(--font-family-base)")],
       [k |-> "fontSize",
        v |-> JSStr(IF style.fontSize # 0 THEN ToString(style.fontSize) \o "px"
                    ELSE "var(--text-base-regular-size-rem)")],
       [k |-> "fontWeight",
        v |-> IF style.fontWeight # 0 THEN JSNum(style.fontWeight) ELSE JSStr("400")],
       [k |-> "letterSpacing",
        v |-> JSStr(IF style.letterSpacing # 0 THEN ToString(style.letterSpacing) \o "px"
                    ELSE "normal")],
       [k |-> "lineHeight",
        v |-> JSStr(IF style.lineHeightPx # 0 THEN ToString(style.lineHeightPx) \o "px"
                    ELSE "normal")] >>

RECURSIVE JSONEntries(_, _)
JSONEntries(entries, i) ==
  IF i > Len(entries) THEN ""
  ELSE (IF i > 1 THEN "," ELSE "")
         \o "\"" \o entries[i].k \o "\":" \o JSONValue(entries[i].v)
         \o JSONEntries(entries, i + 1)

\* JSON.stringify(childSpec.textStyle)
JSONStringify(entries) == "{" \o JSONEntries(entries, 1) \o "}"

UpperChars == <<"A","B","C","D","E","F","G","H","I","J","K","L","M",
                "N","O","P","Q","R","S","T","U","V","W","X","Y","Z">>

LowerChars == <<"a","b","c","d","e","f","g","h","i","j","k","l","m",
                "n","o","p","q","r","s","t","u","v","w","x","y","z">>

DigitChars == <<"0","1","2","3","4","5","6","7","8","9">>

\* String.prototype.toLowerCase on one character.
toLowerCase(c) ==
  IF c \in Range(UpperChars)
  THEN LowerChars[CHOOSE i \in 1..Len(UpperChars) : UpperChars[i] = c]
  ELSE c

IsSpace(c) == c \in {" ", "\t", "\n"}

RECURSIVE ReplaceSpaceRuns(_)
\* .replace(/\s+/g, '-') on a character sequence.
ReplaceSpaceRuns(cs) ==
  IF cs = <<>> THEN <<>>
  ELSE IF IsSpace(Head(cs))
       THEN IF Len(cs) > 1 /\ IsSpace(cs[2])
            THEN ReplaceSpaceRuns(Tail(cs))
            ELSE <<"-">> \o ReplaceSpaceRuns(Tail(cs))
       ELSE <<Head(cs)>> \o ReplaceSpaceRuns(Tail(cs))

\* .replace(/[^a-z0-9-]/g, '') on a character sequence.
StripNonSlug(cs) ==
  SelectSeq(cs, LAMBDA c : c \in Range(LowerChars) \cup Range(DigitChars) \cup {"-"})

\* name.toLowerCase().replace(/\s+/g, '-').replace(/[^a-z0-9-]/g, '')
Slugify(name) ==
  Join(StripNonSlug(ReplaceSpaceRuns([i \in 1..Len(name) |-> toLowerCase(name[i])])))

\* ------------------------------------------------------------------------
\* scripts/extract-figma-cards.js : extractCardSpecs and the generators
\* ------------------------------------------------------------------------

\* The childSpec literal built for one child, before its fill and text are read.
NewChildSpec(child, depth) ==
  [id |-> child.id, name |-> child.name, type |-> child.type, depth |-> depth,
   dimensions |-> [x |-> child.absoluteBoundingBox.x,
                   y |-> child.absoluteBoundingBox.y,
                   width |-> child.absoluteBoundingBox.width,
                   height |-> child.absoluteBoundingBox.height],
   styles |-> [backgroundColor |-> <<>>, borderRadius |-> child.cornerRadius],
   textContent |-> "",
   textStyle |-> <<>>]

\* A paint list whose first paint is SOLID (fills && fills.length > 0 && fills[0].type === 'SOLID').
FirstSolid(paints) == Len(paints) > 0 /\ paints[1].type = "SOLID"

HasText(child) == child.type = "TEXT" /\ child.characters # ""

\* specs.children.unshift(childSpec) in place of push.
VisitChildUnshift(specs, child, depth) ==
  LET base == NewChildSpec(child, depth)
      withFill == IF FirstSolid(child.fills)
                  THEN [base EXCEPT !.styles.backgroundColor =
                                        <<mapToDesignToken(child.fills[1].color)>>]
                  ELSE base
      childSpec == IF HasText(child)
                   THEN [withFill EXCEPT !.textContent = child.characters,
                                         !.textStyle = <<getTextStyle(child)>>]
                   ELSE withFill
      colors == IF FirstSolid(child.fills)
                THEN SetAdd(specs.colors, figmaColorToCSS(child.fills[1].color))
                ELSE specs.colors
      typography == IF HasText(child)
                    THEN SetAdd(specs.typography, JSONStringify(childSpec.textStyle[1]))
                    ELSE specs.typography
  IN [specs EXCEPT !.children = <<childSpec>> \o specs.children,
                   !.colors = colors,
                   !.typography = typography]

\* The body of the forEach callback up to specs.children.push(childSpec).
VisitChild(specs, child, depth) ==
  LET base == NewChildSpec(child, depth)
      withFill == IF FirstSolid(child.fills)
                  THEN [base EXCEPT !.styles.backgroundColor =
                                        <<mapToDesignToken(child.fills[1].color)>>]
                  ELSE base
      childSpec == IF HasText(child)
                   THEN [withFill EXCEPT !.textContent = child.characters,
                                         !.textStyle = <<getTextStyle(child)>>]
                   ELSE withFill
      colors == IF FirstSolid(child.fills)
                THEN SetAdd(specs.colors, figmaColorToCSS(child.fills[1].color))
                ELSE specs.colors
      typography == IF HasText(child)
                    THEN SetAdd(specs.typography, JSONStringify(childSpec.textStyle[1]))
                    ELSE specs.typography
  IN [specs EXCEPT !.children = Append(specs.children, childSpec),
                   !.colors = colors,
                   !.typography = typography]

RECURSIVE traverseFrom(_, _, _, _)
RECURSIVE traverseChildren(_, _, _)
\* node.children.forEach from index i on: visit the child, then its subtree.
traverseFrom(specs, node, depth, i) ==
  IF i > Len(node.children) THEN specs
  ELSE LET child == node.children[i]
       IN traverseFrom(traverseChildren(VisitChild(specs, child, depth), child, depth + 1),
                       node, depth, i + 1)

traverseChildren(specs, node, depth) ==
  IF node.children = <<>> THEN specs ELSE traverseFrom(specs, node, depth, 1)

\* The specs literal of extractCardSpecs, before fills, strokes and children are read.
NewCardSpecs(doc) ==
  [id |-> doc.id, name |-> doc.name, type |-> doc.type,
   dimensions |-> [width |-> doc.absoluteBoundingBox.width,
                   height |-> doc.absoluteBoundingBox.height],
   styles |-> [backgroundColor |-> <<>>, borderRadius |-> doc.cornerRadius,
               borderWidth |-> 0, borderColor |-> <<>>],
   children |-> <<>>, text |-> <<>>, colors |-> <<>>, typography |-> <<>>]

\* extractCardSpecs(node): <<>> for null, <<specs>> otherwise.
extractCardSpecs(node) ==
  IF node = <<>> \/ node[1].document = <<>> THEN <<>>
  ELSE LET doc == node[1].document[1]
           s0 == NewCardSpecs(doc)
           s1 == IF FirstSolid(doc.fills)
                 THEN [s0 EXCEPT !.styles.backgroundColor = <<mapToDesignToken(doc.fills[1].color)>>,
                                 !.colors = SetAdd(s0.colors, figmaColorToCSS(doc.fills[1].color))]
                 ELSE s0
           s2 == IF Len(doc.strokes) > 0
                 THEN [s1 EXCEPT !.styles.borderWidth =
                                    IF doc.strokeWeight # 0 THEN doc.strokeWeight ELSE 1]
                 ELSE s1
           s3 == IF FirstSolid(doc.strokes)
                 THEN [s2 EXCEPT !.styles.borderColor = <<mapToDesignToken(doc.strokes[1].color)>>,
                                 !.colors = SetAdd(s2.colors, figmaColorToCSS(doc.strokes[1].color))]
                 ELSE s2
       IN <<traverseChildren(s3, doc, 0)>>

RECURSIVE Repeat(_, _)
\* String.prototype.repeat
Repeat(str, n) == IF n = 0 THEN "" ELSE str \o Repeat(str, n - 1)

\* One line of the HTML skeleton for a child.
HTMLChildLine(child) ==
  LET childClass == Slugify(child.name)
      indent == Repeat("  ", child.depth + 1)
  IN IF child.textContent # ""
     THEN indent \o "<span class=\"" \o childClass \o "\">" \o child.textContent \o "</span>\n"
     ELSE indent \o "<div class=\"" \o childClass \o "\"></div>\n"

generateHTMLStructure(specs) ==
  "<div class=\"" \o Slugify(specs.name) \o "\">\n"
    \o Join([i \in 1..Len(specs.children) |-> HTMLChildLine(specs.children[i])])
    \o "</div>"

\* The property name written in front of a text-style value.
TextStyleProp(key) == key

\* The declarations (between the braces) of the root rule block.
RootDecls(specs) ==
  << "width: " \o ToString(specs.dimensions.width) \o "px;",
     "height: " \o ToString(specs.dimensions.height) \o "px;" >>
  \o (IF specs.styles.backgroundColor # <<>>
      THEN << "background-color: " \o specs.styles.backgroundColor[1] \o ";" >> ELSE <<>>)
  \o (IF specs.styles.borderRadius # 0
      THEN << "border-radius: " \o ToString(specs.styles.borderRadius) \o "px;" >> ELSE <<>>)
  \o (IF specs.styles.borderWidth # 0
      THEN << "border-width: " \o ToString(specs.styles.borderWidth) \o "px;" >> ELSE <<>>)
  \o (IF specs.styles.borderColor # <<>>
      THEN << "border-color: " \o specs.styles.borderColor[1] \o ";" >> ELSE <<>>)

\* The declarations of one child's rule block.
ChildDecls(child) ==
  << "position: absolute;",
     "left: " \o ToString(child.dimensions.x) \o "px;",
     "top: " \o ToString(child.dimensions.y) \o "px;",
     "width: " \o ToString(child.dimensions.width) \o "px;",
     "height: " \o ToString(child.dimensions.height) \o "px;" >>
  \o (IF child.styles.backgroundColor # <<>>
      THEN << "background-color: " \o child.styles.backgroundColor[1] \o ";" >> ELSE <<>>)
  \o (IF child.styles.borderRadius # 0
      THEN << "border-radius: " \o ToString(child.styles.borderRadius) \o "px;" >> ELSE <<>>)
  \o (IF child.textStyle # <<>>
      THEN [i \in 1..Len(child.textStyle[1]) |->
              TextStyleProp(child.textStyle[1][i].k) \o ": "
                \o Interp(child.textStyle[1][i].v) \o ";"]
      ELSE <<>>)

\* The rule blocks generateCSSClasses emits: the root's, then one per child.
CSSBlocks(specs) ==
  LET mainClass == Slugify(specs.name)
  IN << [selector |-> "." \o mainClass, decls |-> RootDecls(specs)] >>
     \o [i \in 1..Len(specs.children) |->
           [selector |-> "." \o mainClass \o " ." \o Slugify(specs.children[i].name),
            decls |-> ChildDecls(specs.children[i])]]

\* The text of one rule block.
CSSBlockText(block) ==
  block.selector \o " {\n"
    \o Join([i \in 1..Len(block.decls) |-> "  " \o block.decls[i] \o "\n"])
    \o "}\n\n"

generateCSSClasses(specs) ==
  LET blocks == CSSBlocks(specs)
  IN Join([i \in 1..Len(blocks) |-> CSSBlockText(blocks[i])])

generateSpecFile(specs, cardName) ==
  [cardName |-> cardName,
   specifications |-> specs,
   designTokens |-> [colors |-> specs.colors, typography |-> specs.typography],
   implementation |-> [htmlStructure |-> generateHTMLStructure(specs),
                       cssClasses |-> generateCSSClasses(specs)]]

\* ------------------------------------------------------------------------
\* Figma documents (the external input of the card extractor)
\* ------------------------------------------------------------------------

\* Bound: the largest number of descendants of a generated document.
MaxNodes == 3

\* Bound: how many documents one run of the walker harness extracts in a row.
MaxWalks == 2

NoBox == [x |-> 0, y |-> 0, width |-> 0, height |-> 0]

White == [r |-> ChannelDen, g |-> ChannelDen, b |-> ChannelDen, a |-> "1"]

\* r = g = b = 0.5, no alpha field: not in colorMap.
HalfGray == [r |-> 255, g |-> 255, b |-> 255, a |-> ""]

ChildKinds == {"RECT", "TEXT", "SWATCH", "NOCOLOR"}

\* A descendant node of the given kind.
ChildNode(kind, id, children) ==
  CASE kind = "RECT" ->
         [id |-> id, name |-> <<"B","a","r"," ","1">>, type |-> "RECTANGLE",
          absoluteBoundingBox |-> [x |-> 10, y |-> 10, width |-> 100, height |-> 20],
          cornerRadius |-> 0, fills |-> <<>>, strokes |-> <<>>, strokeWeight |-> 0,
          style |-> <<>>, characters |-> "", children |-> children]
    [] kind = "TEXT" ->
         [id |-> id, name |-> <<"L","a","b","e","l">>, type |-> "TEXT",
          absoluteBoundingBox |-> NoBox,
          cornerRadius |-> 0, fills |-> <<>>, strokes |-> <<>>, strokeWeight |-> 0,
          style |-> << [fontFamily |-> "", fontSize |-> 24, fontWeight |-> 700,
                        letterSpacing |-> 0, lineHeightPx |-> 0] >>,
          characters |-> "Balance", children |-> children]
    [] kind = "SWATCH" ->
         [id |-> id, name |-> <<"S","w","a","t","c","h">>, type |-> "ELLIPSE",
          absoluteBoundingBox |-> NoBox,
          cornerRadius |-> 4, fills |-> << [type |-> "SOLID", color |-> <<HalfGray>>] >>,
          strokes |-> <<>>, strokeWeight |-> 0,
          style |-> <<>>, characters |-> "", children |-> children]
    [] kind = "NOCOLOR" ->
         [id |-> id, name |-> <<"G","h","o","s","t">>, type |-> "FRAME",
          absoluteBoundingBox |-> NoBox,
          cornerRadius |-> 0, fills |-> << [type |-> "SOLID", color |-> <<>>] >>,
          strokes |-> <<>>, strokeWeight |-> 0,
          style |-> <<>>, characters |-> "", children |-> children]

RootKinds == {"CARD", "PLAIN", "UNPAINTED"}

\* A root document of the given kind.
RootNode(kind, id, children) ==
  CASE kind = "CARD" ->
         [id |-> id, name |-> <<"B","a","l","a","n","c","e"," ","C","a","r","d">>,
          type |-> "FRAME",
          absoluteBoundingBox |-> [x |-> 0, y |-> 0, width |-> 320, height |-> 200],
          cornerRadius |-> 16, fills |-> << [type |-> "SOLID", color |-> <<White>>] >>,
          strokes |-> <<>>, strokeWeight |-> 0,
          style |-> <<>>, characters |-> "", children |-> children]
    [] kind = "PLAIN" ->
         [id |-> id, name |-> <<"A","l","l"," "," ","C","a","r","d","s","!">>,
          type |-> "FRAME", absoluteBoundingBox |-> NoBox,
          cornerRadius |-> 0, fills |-> << [type |-> "GRADIENT_LINEAR", color |-> <<>>] >>,
          strokes |-> << [type |-> "SOLID", color |-> <<HalfGray>>] >>, strokeWeight |-> 2,
          style |-> <<>>, characters |-> "", children |-> children]
    [] kind = "UNPAINTED" ->
         [id |-> id, name |-> <<"P","i","e">>,
          type |-> "FRAME", absoluteBoundingBox |-> NoBox,
          cornerRadius |-> 0, fills |-> << [type |-> "SOLID", color |-> <<>>] >>,
          strokes |-> << [type |-> "SOLID", color |-> <<>>] >>, strokeWeight |-> 0,
          style |-> <<>>, characters |-> "", children |-> children]

RECURSIVE RawForests(_)
\* Every ordered forest of n nodes, each node of some kind of ChildKinds.
RawForests(n) ==
  IF n = 0 THEN {<<>>}
  ELSE UNION { { <<[kind |-> kd, children |-> ch]>> \o rest :
                   kd \in ChildKinds, ch \in RawForests(k - 1), rest \in RawForests(n - k) }
               : k \in 1..n }

RECURSIVE Label(_, _)
\* The forest as Figma nodes; a node's id is its path of child positions below the root.
Label(forest, path) ==
  [i \in 1..Len(forest) |->
     ChildNode(forest[i].kind, path \o <<i>>, Label(forest[i].children, path \o <<i>>))]

\* Every root document with at most MaxNodes descendants.
Documents ==
  { RootNode(rk, <<0>>, Label(f, <<>>)) :
      rk \in RootKinds, f \in UNION { RawForests(n) : n \in 0..MaxNodes } }

\* The document of the end-to-end scenario: cornerRadius 16, one solid white
\* fill, a plain rectangle at (10,10) 100x20 and the text "Balance" 24px/700.
ScenarioDoc ==
  RootNode("CARD", <<0>>,
           Label(<< [kind |-> "RECT", children |-> <<>>],
                    [kind |-> "TEXT", children |-> <<>>] >>, <<>>))

\* What data.nodes[nodeId] holds for a document.
NodeOf(doc) == << [document |-> <<doc>>] >>

\* ------------------------------------------------------------------------
\* State
\* ------------------------------------------------------------------------

VARIABLES
  script,     \* which program runs: "cards", "export" or "walk" (the walker harness)
  env,        \* environment variables and command-line arguments of the run
  pc,         \* where the program's main function stands
  idx,        \* card extractor: index into nodeIds of the node being fetched
  requests,   \* every HTTP request issued so far, in order
  fetched,    \* card extractor: the response received for each node ID handled so far
  dirs,       \* directories created so far
  files,      \* every file write so far, in order: [path, content]
  console,    \* every console line so far, in order
  allSpecs,   \* card extractor: the allSpecs array
  exit,       \* <<>> while the process runs, <<code>> once it has exited
  exitCode,   \* exporter: process.exitCode (0 while it is not set)
  replies,    \* exporter: the response each request received (<<>> while in flight)
  settled,    \* exporter: the state of each promise handed to Promise.all
  wNode,      \* walker harness: the node handed to extractCardSpecs
  wSpecs,     \* walker harness: what extractCardSpecs returned
  wBlocks,    \* walker harness: the rule blocks generateCSSClasses emitted
  walks       \* walker harness: documents extracted so far

vars == <<script, env, pc, idx, requests, fetched, dirs, files, console,
          allSpecs, exit, exitCode, replies, settled, wNode, wSpecs, wBlocks, walks>>

procVars == <<env, idx, requests, fetched, dirs, files, console,
              allSpecs, exit, exitCode, replies, settled>>

walkVars == <<wNode, wSpecs, wBlocks, walks>>

cardsVars == <<idx, fetched, allSpecs>>

exportVars == <<exitCode, replies, settled>>

\* ------------------------------------------------------------------------
\* HTTP responses
\* ------------------------------------------------------------------------

\* A response with a status line; body is <<>> or <<payload>>.
Http(status, statusText, body) ==
  [kind |-> "http", ok |-> status \in 200..299, status |-> status,
   statusText |-> statusText, body |-> body]

\* fetch() itself rejecting (DNS, connection reset, ...).
TransportError ==
  [kind |-> "error", ok |-> FALSE, status |-> 0, statusText |-> "", body |-> <<>>]

Forbidden == Http(403, "Forbidden", << "{\"status\":403,\"err\":\"Invalid token\"}" >>)

NotFound == Http(404, "Not Found", << "{\"status\":404,\"err\":\"Not found\"}" >>)

FailureResponses == {TransportError, Forbidden, NotFound}

\* A function's outcome: it returned value, or it threw error.
Returned(value) == [threw |-> FALSE, error |-> ErrorOf(<<>>), value |-> value]

Threw(error) == [threw |-> TRUE, error |-> error, value |-> <<>>]

\* ------------------------------------------------------------------------
\* scripts/extract-figma-cards.js : the batch driver
\* ------------------------------------------------------------------------

DefaultFileId == "zksBuILVajtp60Oca28Vnl"

FILE_ID == IF env.argv2 # "" THEN env.argv2 ELSE DefaultFileId

OUTPUT_DIR == "./figma-extract"

nodeIds == << <<21, 5359>>, <<21, 5360>> >>

\* The documents the Figma API may hold for a node ID of the batch.
SampleDocs ==
  { ScenarioDoc,
    RootNode("PLAIN", <<0>>,
             Label(<< [kind |-> "SWATCH",
                       children |-> << [kind |-> "TEXT", children |-> <<>>],
                                       [kind |-> "SWATCH", children |-> <<>>] >>] >>, <<>>)),
    RootNode("UNPAINTED", <<0>>,
             Label(<< [kind |-> "NOCOLOR", children |-> <<>>] >>, <<>>)) }

\* 200 OK bodies of the nodes endpoint: body[1].valid is whether the body parses
\* and has a `nodes` map, body[1].node what data.nodes[nodeId] holds.
NodeBodies ==
  { [valid |-> FALSE, node |-> <<>>],
    [valid |-> TRUE, node |-> <<>>],
    [valid |-> TRUE, node |-> << [document |-> <<>>] >>] }
  \cup { [valid |-> TRUE, node |-> NodeOf(d)] : d \in SampleDocs }

NodeResponses == FailureResponses \cup { Http(200, "OK", <<b>>) : b \in NodeBodies }

\* figmaRequest(endpoint), given the response fetch() delivers.
figmaRequest(res) ==
  IF res.kind = "error" THEN Threw(ErrorOf(<<"request to https://api.figma.com/v1/ failed">>))
  ELSE IF ~res.ok
       THEN Threw(ErrorOf(<<"Figma API error: ", res.statusText>>))
       ELSE IF ~res.body[1].valid
            THEN Threw(ErrorOf(<<"invalid json response body">>))
            ELSE Returned(res.body[1])

\* getNodeDetails(nodeId) after its request is answered: data.nodes[nodeId].
getNodeDetails(res) ==
  LET data == figmaRequest(res)
  IN IF data.threw THEN data ELSE Returned(data.value.node)

\* The request getNodeDetails(nodeId) issues.
NodeRequest(nodeId) ==
  [url |-> <<"https://api.figma.com/v1/", "files/", FILE_ID, "/nodes?ids=", nodeId>>,
   token |-> env.FIGMA_TOKEN]

Line(stream, tag, node, text) == [stream |-> stream, tag |-> tag, node |-> node, text |-> text]

SpecPath(cardName) == OUTPUT_DIR \o "/" \o cardName \o "-specs.json"

SummaryPath == OUTPUT_DIR \o "/" \o "extraction-summary.json"

\* The catch block logging and then rethrowing.
CatchRethrows(fs, specsList, con, nodeId, res) ==
  LET nodeData == getNodeDetails(res)
      specs == IF nodeData.threw THEN <<>> ELSE extractCardSpecs(nodeData.value)
  IN IF nodeData.threw
     THEN [files |-> fs, allSpecs |-> specsList, threw |-> TRUE,
           console |-> Append(con, Line("stderr", "failed", nodeId, nodeData.error.message))]
     ELSE IF specs = <<>>
          THEN [files |-> fs, allSpecs |-> specsList, console |-> con, threw |-> FALSE]
          ELSE LET cardName == Slugify(specs[1].name)
                   specFile == generateSpecFile(specs[1], cardName)
               IN [files |-> Append(fs, [path |-> SpecPath(cardName), content |-> specFile]),
                   allSpecs |-> Append(specsList, specFile), threw |-> FALSE,
                   console |-> Append(con, Line("stdout", "extracted", <<>>,
                                        <<cardName, ToString(Len(specs[1].children))>>))]

\* One iteration of the loop over nodeIds after its fetch is answered: the try
\* block and its catch. threw: whether the iteration lets an error escape.
TryNode(fs, specsList, con, nodeId, res) ==
  LET nodeData == getNodeDetails(res)
      specs == IF nodeData.threw THEN <<>> ELSE extractCardSpecs(nodeData.value)
  IN IF nodeData.threw
     THEN [files |-> fs, allSpecs |-> specsList, threw |-> FALSE,
           console |-> Append(con, Line("stderr", "failed", nodeId, nodeData.error.message))]
     ELSE IF specs = <<>>
          THEN [files |-> fs, allSpecs |-> specsList, console |-> con, threw |-> FALSE]
          ELSE LET cardName == Slugify(specs[1].name)
                   specFile == generateSpecFile(specs[1], cardName)
               IN [files |-> Append(fs, [path |-> SpecPath(cardName), content |-> specFile]),
                   allSpecs |-> Append(specsList, specFile), threw |-> FALSE,
                   console |-> Append(con, Line("stdout", "extracted", <<>>,
                                        <<cardName, ToString(Len(specs[1].children))>>))]

\* totalCards taken from the node ID list instead of allSpecs.
SummaryCountsNodeIds(specsList) ==
  [fileId |-> FILE_ID,
   totalCards |-> Len(nodeIds),
   cards |-> [i \in 1..Len(specsList) |->
                [name |-> specsList[i].cardName,
                 children |-> Len(specsList[i].specifications.children),
                 colors |-> Len(specsList[i].designTokens.colors),
                 typography |-> Len(specsList[i].designTokens.typography)]]]

\* The object written to extraction-summary.json.
Summary(specsList) ==
  [fileId |-> FILE_ID,
   totalCards |-> Len(specsList),
   cards |-> [i \in 1..Len(specsList) |->
                [name |-> specsList[i].cardName,
                 children |-> Len(specsList[i].specifications.children),
                 colors |-> Len(specsList[i].designTokens.colors),
                 typography |-> Len(specsList[i].designTokens.typography)]]]

\* extractCardSpecifications() up to its first await: the token check, the
\* output directory, and the first node's request.  Without a token the
\* rejection reaches the entry point's catch, which calls process.exit(1).
CardsStart ==
  /\ script = "cards" /\ pc = "start"
  /\ IF env.FIGMA_TOKEN = ""
     THEN /\ console' = console \o
                 << Line("stdout", "starting", <<>>, <<>>),
                    Line("stderr", "extraction-failed", <<>>,
                         <<"FIGMA_TOKEN environment variable is required">>) >>
          /\ exit' = <<1>>
          /\ pc' = "exited"
          /\ UNCHANGED <<idx, requests, dirs>>
     ELSE /\ dirs' = dirs \cup {OUTPUT_DIR}
          /\ idx' = 1
          /\ requests' = Append(requests, NodeRequest(nodeIds[1]))
          /\ console' = console \o
                 << Line("stdout", "starting", <<>>, <<>>),
                    Line("stdout", "fetching", nodeIds[1], <<>>) >>
          /\ pc' = "awaitFetch"
          /\ UNCHANGED exit
  /\ UNCHANGED <<script, env, fetched, files, allSpecs>>
  /\ UNCHANGED exportVars
  /\ UNCHANGED walkVars

\* The loop resumes with the answer to the pending request: the rest of this
\* iteration, then either the next node's request or, after the last node,
\* the summary file and the return.
CardsReceive(res) ==
  /\ script = "cards" /\ pc = "awaitFetch"
  /\ LET nodeId == nodeIds[idx]
         r == TryNode(files, allSpecs, console, nodeId, res)
     IN /\ fetched' = Append(fetched, res)
        /\ allSpecs' = r.allSpecs
        /\ IF r.threw
           THEN /\ files' = r.files
                /\ console' = Append(r.console, Line("stderr", "extraction-failed", <<>>, <<>>))
                /\ exit' = <<1>>
                /\ pc' = "exited"
                /\ UNCHANGED <<idx, requests>>
           ELSE IF idx < Len(nodeIds)
                THEN /\ idx' = idx + 1
                     /\ requests' = Append(requests, NodeRequest(nodeIds[idx + 1]))
                     /\ console' = Append(r.console,
                                          Line("stdout", "fetching", nodeIds[idx + 1], <<>>))
                     /\ files' = r.files
                     /\ pc' = "awaitFetch"
                     /\ UNCHANGED exit
                ELSE /\ files' = Append(r.files, [path |-> SummaryPath,
                                                  content |-> Summary(r.allSpecs)])
                     /\ console' = Append(r.console,
                                          Line("stdout", "complete", <<>>,
                                               <<ToString(Len(r.allSpecs))>>))
                     /\ pc' = "returned"
                     /\ UNCHANGED <<idx, requests, exit>>
  /\ UNCHANGED <<script, env, dirs>>
  /\ UNCHANGED exportVars
  /\ UNCHANGED walkVars

\* The exit code reports whether some node ID gave no card.
CardsExitReportsFailures ==
  /\ script = "cards" /\ pc = "returned"
  /\ exit' = <<IF Len(allSpecs) < Len(nodeIds) THEN 1 ELSE 0>>
  /\ pc' = "exited"
  /\ UNCHANGED <<script, env, idx, requests, fetched, dirs, files, console, allSpecs>>
  /\ UNCHANGED exportVars
  /\ UNCHANGED walkVars

\* Nothing is left to run: the process ends with code 0.
CardsExit ==
  /\ script = "cards" /\ pc = "returned"
  /\ exit' = <<0>>
  /\ pc' = "exited"
  /\ UNCHANGED <<script, env, idx, requests, fetched, dirs, files, console, allSpecs>>
  /\ UNCHANGED exportVars
  /\ UNCHANGED walkVars

\* ------------------------------------------------------------------------
\* scripts/figma-fetch.js : the full-file exporter
\* ------------------------------------------------------------------------

\* The five requests of Promise.all, in the order of its array.
Endpoints == <<"file", "styles", "components", "variables", "comments">>

\* A built-in default file key, as the card extractor has for FILE_ID.
FileKeyWithDefault ==
  IF env.fileKey # "" THEN env.fileKey
  ELSE IF env.FIGMA_FILE_KEY # "" THEN env.FIGMA_FILE_KEY ELSE DefaultFileId

\* `args.fileKey || optionalEnv('FIGMA_FILE_KEY')`
fileKey == IF env.fileKey # "" THEN env.fileKey ELSE env.FIGMA_FILE_KEY

\* resolveOutputDir()
ExportDir == "figma-export"

\* The endpoint path each fetch* helper hands to figmaGet.
EndpointPath(ep) ==
  IF ep = "file" THEN "/files/" \o fileKey ELSE "/files/" \o fileKey \o "/" \o ep

ExportRequest(ep) ==
  [url |-> <<"https://api.figma.com/v1", EndpointPath(ep)>>,
   token |-> env.FIGMA_PERSONAL_ACCESS_TOKEN]

\* The JSON a successful request of the endpoint returns.
Payload(ep) ==
  IF ep = "file"
  THEN [document |-> "DOCUMENT", name |-> "Finance", lastModified |-> "2024-01-01",
        version |-> "1", role |-> "owner"]
  ELSE [document |-> "", name |-> ep, lastModified |-> "", version |-> "", role |-> ""]

ExportFailures == {TransportError, Forbidden}

ExportResponses(ep) == ExportFailures \cup { Http(200, "OK", <<Payload(ep)>>) }

\* figmaGet(endpoint, token, params), given the response fetch() delivers.
figmaGet(endpoint, res) ==
  IF res.kind = "error"
  THEN Threw(ErrorOf(<<"request to https://api.figma.com/v1", endpoint, " failed">>))
  ELSE IF ~res.ok
       THEN Threw(ErrorOf(<<"Figma API ", endpoint, " failed: ", ToString(res.status), " ",
                            res.statusText, " -> ", res.body[1]>>))
       ELSE Returned(res.body[1])

Pending == [state |-> "pending", value |-> <<>>, reason |-> <<>>]

Fulfilled(value) == [state |-> "fulfilled", value |-> <<value>>, reason |-> <<>>]

Rejected(error) == [state |-> "rejected", value |-> <<>>, reason |-> <<error>>]

\* No .catch on the variables request.
VariablesFailureRejects(ep, outcome) ==
  IF outcome.threw THEN Rejected(outcome.error) ELSE Fulfilled(outcome.value)

\* The .catch of the variables request on every request.
CatchOnEveryRequest(ep, outcome) ==
  IF outcome.threw THEN Fulfilled([error |-> outcome.error.message])
  ELSE Fulfilled(outcome.value)

\* The promise handed to Promise.all for the endpoint, once its request is
\* answered: fetchFileVariables(...) carries .catch((e) => ({ error: e.message })).
ArrayPromise(ep, outcome) ==
  IF outcome.threw
  THEN IF ep = "variables"
       THEN Fulfilled([error |-> outcome.error.message])
       ELSE Rejected(outcome.error)
  ELSE Fulfilled(outcome.value)

ExportPath(stem) == ExportDir \o "/" \o stem \o "-" \o fileKey \o ".json"

\* Property access: a property the object lacks reads as undefined.
Get(obj, key) == IF key \in DOMAIN obj THEN obj[key] ELSE "undefined"

\* The k-th writeFile after the join: its path and the object serialised.
ExportFile(k, results) ==
  LET ep == Endpoints[k]
      v == results[ep].value[1]
  IN [path |-> ExportPath(ep),
      content |-> IF ep = "file"
                  THEN [meta |-> [name |-> Get(v, "name"),
                                  lastModified |-> Get(v, "lastModified"),
                                  version |-> Get(v, "version"), role |-> Get(v, "role")],
                        document |-> Get(v, "document")]
                  ELSE v]

\* `.split(',').map(trim).filter(Boolean)` on the ids argument, given as the
\* trimmed pieces between its commas.
ParseIds(pieces) == SelectSeq(pieces, LAMBDA piece : piece # "")

RECURSIVE JoinWith(_, _)
\* Array.prototype.join
JoinWith(parts, sep) ==
  IF parts = <<>> THEN ""
  ELSE IF Len(parts) = 1 THEN parts[1]
       ELSE parts[1] \o sep \o JoinWith(Tail(parts), sep)

NodesRequest(ids) ==
  [url |-> <<"https://api.figma.com/v1", "/files/" \o fileKey \o "/nodes",
             "?ids=" \o JoinWith(ids, ",")>>,
   token |-> env.FIGMA_PERSONAL_ACCESS_TOKEN]

NodesResponses == ExportFailures \cup { Http(200, "OK", <<Payload("nodes")>>) }

\* main().catch: console.error(err.message); process.exitCode = 1
MainCatch(message) ==
  /\ console' = Append(console, Line("stderr", "error", <<>>, message))
  /\ exitCode' = 1
  /\ pc' = "rejected"

\* main() up to its first await: requireEnv, the file key, resolveOutputDir and
\* the five requests, which are all issued before Promise.all is awaited.
ExportStart ==
  /\ script = "export" /\ pc = "start"
  /\ IF env.FIGMA_PERSONAL_ACCESS_TOKEN = ""
     THEN /\ MainCatch(<<"Missing required env var ", "FIGMA_PERSONAL_ACCESS_TOKEN",
                         ". See .env.example">>)
          /\ UNCHANGED <<dirs, requests, settled>>
     ELSE IF fileKey = ""
          THEN /\ MainCatch(<<"No --fileKey provided and FIGMA_FILE_KEY not set in env">>)
               /\ UNCHANGED <<dirs, requests, settled>>
          ELSE /\ dirs' = dirs \cup {ExportDir}
               /\ requests' = requests \o [i \in 1..Len(Endpoints) |-> ExportRequest(Endpoints[i])]
               /\ settled' = [ep \in Range(Endpoints) |-> Pending]
               /\ pc' = "awaitAll"
               /\ UNCHANGED <<console, exitCode>>
  /\ UNCHANGED <<script, env, files, exit, replies>>
  /\ UNCHANGED cardsVars
  /\ UNCHANGED walkVars

AllFulfilled(results) == \A ep \in Range(Endpoints) : results[ep].state = "fulfilled"

\* Whether Promise.all rejects now that the endpoint's promise settled.
JoinRejects(results, ep) == results[ep].state = "rejected"

\* Whether Promise.all resolves.
JoinResolves(results) == AllFulfilled(results)

\* One of the five requests is answered, in any order.  While main still
\* awaits the join, the first rejection rejects it (and main), and the last
\* fulfilment resumes main at its first writeFile.
ExportReply(ep, res) ==
  /\ script = "export" /\ pc \in {"awaitAll", "rejected"}
  /\ ep \in DOMAIN settled /\ replies[ep] = <<>>
  /\ replies' = [replies EXCEPT ![ep] = <<res>>]
  /\ LET p == ArrayPromise(ep, figmaGet(EndpointPath(ep), res))
         results == [settled EXCEPT ![ep] = p]
     IN /\ settled' = results
        /\ IF pc = "awaitAll" /\ JoinRejects(results, ep)
           THEN /\ MainCatch(p.reason[1].message)
                /\ UNCHANGED idx
           ELSE IF pc = "awaitAll" /\ JoinResolves(results)
                THEN /\ pc' = "writing"
                     /\ idx' = 1
                     /\ UNCHANGED <<console, exitCode>>
                ELSE UNCHANGED <<pc, idx, console, exitCode>>
  /\ UNCHANGED <<script, env, requests, fetched, dirs, files, allSpecs, exit>>
  /\ UNCHANGED walkVars

\* What main does once the five files are written.
AfterWrites ==
  IF env.nodes
  THEN IF ParseIds(env.ids) = <<>>
       THEN /\ console' = console \o
                   << Line("stderr", "no-node-ids", <<>>, <<>>),
                      Line("stdout", "complete", <<>>, <<ExportDir>>) >>
            /\ pc' = "returned"
            /\ UNCHANGED requests
       ELSE /\ requests' = Append(requests, NodesRequest(ParseIds(env.ids)))
            /\ pc' = "awaitNodes"
            /\ UNCHANGED console
  ELSE /\ console' = Append(console, Line("stdout", "complete", <<>>, <<ExportDir>>))
       /\ pc' = "returned"
       /\ UNCHANGED requests

\* One `await writeFile(...)` of the five completes; after the fifth, main goes on.
ExportWrite ==
  /\ script = "export" /\ pc = "writing"
  /\ files' = Append(files, ExportFile(idx, settled))
  /\ IF idx < Len(Endpoints)
     THEN /\ idx' = idx + 1
          /\ UNCHANGED <<pc, console, requests>>
     ELSE /\ AfterWrites
          /\ UNCHANGED idx
  /\ UNCHANGED <<script, env, fetched, dirs, allSpecs, exit, exitCode, replies, settled>>
  /\ UNCHANGED walkVars

\* The --nodes request is answered.
ExportNodesReply(res) ==
  /\ script = "export" /\ pc = "awaitNodes"
  /\ LET nodes == figmaGet("/files/" \o fileKey \o "/nodes", res)
     IN IF nodes.threw
        THEN /\ MainCatch(nodes.error.message)
             /\ UNCHANGED files
        ELSE /\ files' = Append(files, [path |-> ExportPath("nodes"), content |-> nodes.value])
             /\ console' = Append(console, Line("stdout", "complete", <<>>, <<ExportDir>>))
             /\ pc' = "returned"
             /\ UNCHANGED exitCode
  /\ UNCHANGED <<script, env, idx, requests, fetched, dirs, allSpecs, exit, replies, settled>>
  /\ UNCHANGED walkVars

\* main has settled and no request is in flight: the process ends with
\* process.exitCode, 0 when it was never set.
ExportExit ==
  /\ script = "export" /\ pc \in {"returned", "rejected"}
  /\ \A ep \in DOMAIN settled : replies[ep] # <<>>
  /\ exit' = <<exitCode>>
  /\ pc' = "exited"
  /\ UNCHANGED <<script, env, idx, requests, fetched, dirs, files, console, allSpecs,
                 exitCode, replies, settled>>
  /\ UNCHANGED walkVars

\* ------------------------------------------------------------------------
\* Walker harness: extractCardSpecs and generateCSSClasses applied to documents
\* ------------------------------------------------------------------------

\* specs = extractCardSpecs(node)
WalkExtract ==
  /\ script = "walk" /\ pc = "input"
  /\ wSpecs' = extractCardSpecs(wNode)
  /\ walks' = walks + 1
  /\ pc' = "extracted"
  /\ UNCHANGED <<script, wNode, wBlocks>>
  /\ UNCHANGED procVars

\* if (specs) generateCSSClasses(specs)
WalkGenerate ==
  /\ script = "walk" /\ pc = "extracted" /\ wSpecs # <<>>
  /\ wBlocks' = CSSBlocks(wSpecs[1])
  /\ pc' = "generated"
  /\ UNCHANGED <<script, wNode, wSpecs, walks>>
  /\ UNCHANGED procVars

\* The next node ID of a batch: another node, the previous specs out of scope.
WalkNext(node) ==
  /\ script = "walk" /\ pc \in {"extracted", "generated"} /\ walks < MaxWalks
  /\ wNode' = node
  /\ wSpecs' = <<>>
  /\ wBlocks' = <<>>
  /\ pc' = "input"
  /\ UNCHANGED <<script, walks>>
  /\ UNCHANGED procVars

\* ------------------------------------------------------------------------
\* Specifications
\* ------------------------------------------------------------------------

NoEnv ==
  [FIGMA_TOKEN |-> "", argv2 |-> "", FIGMA_PERSONAL_ACCESS_TOKEN |-> "",
   FIGMA_FILE_KEY |-> "", fileKey |-> "", nodes |-> FALSE, ids |-> <<>>]

CardsEnvs ==
  { [NoEnv EXCEPT !.FIGMA_TOKEN = tok, !.argv2 = arg] :
      tok \in {"", "figd_cards"}, arg \in {"", "FileFromArgv"} }

\* --fileKey and FIGMA_FILE_KEY: neither, the variable alone, the flag alone.
FileKeyChoices == { <<"", "">>, <<"", "ENVKEY">>, <<"ARGKEY", "">> }

\* --nodes and --ids: no --nodes, --nodes with no usable id, --nodes with two ids.
NodesChoices == { <<FALSE, <<"">> >>, <<TRUE, <<"">> >>, <<TRUE, <<"1:2", "", "3:4">> >> }

ExportEnvs ==
  { [NoEnv EXCEPT !.FIGMA_PERSONAL_ACCESS_TOKEN = tok, !.FIGMA_FILE_KEY = fk[2],
                  !.fileKey = fk[1], !.nodes = nc[1], !.ids = nc[2]] :
      tok \in {"", "figd_pat"}, fk \in FileKeyChoices, nc \in NodesChoices }

InitProc ==
  /\ idx = 0
  /\ requests = <<>>
  /\ fetched = <<>>
  /\ dirs = {}
  /\ files = <<>>
  /\ console = <<>>
  /\ allSpecs = <<>>
  /\ exit = <<>>
  /\ exitCode = 0
  /\ replies = [ep \in Range(Endpoints) |-> <<>>]
  /\ settled = <<>>

\* Either script is started from the command line.
Init ==
  /\ script \in {"cards", "export"}
  /\ env \in (IF script = "cards" THEN CardsEnvs ELSE ExportEnvs)
  /\ pc = "start"
  /\ InitProc
  /\ wNode = <<>> /\ wSpecs = <<>> /\ wBlocks = <<>> /\ walks = 0

Next ==
  \/ CardsStart
  \/ \E res \in NodeResponses : CardsReceive(res)
  \/ CardsExit
  \/ ExportStart
  \/ \E i \in 1..Len(Endpoints) :
       \E res \in ExportResponses(Endpoints[i]) : ExportReply(Endpoints[i], res)
  \/ ExportWrite
  \/ \E res \in NodesResponses : ExportNodesReply(res)
  \/ ExportExit

Spec == Init /\ [][Next]_vars

WalkInputs ==
  { NodeOf(d) : d \in Documents } \cup { <<>>, << [document |-> <<>>] >> }

InitWalk ==
  /\ script = "walk"
  /\ env = NoEnv
  /\ pc = "input"
  /\ InitProc
  /\ wNode \in WalkInputs
  /\ wSpecs = <<>> /\ wBlocks = <<>> /\ walks = 0

NextWalk ==
  \/ WalkExtract
  \/ WalkGenerate
  \/ \E d \in SampleDocs : WalkNext(NodeOf(d))

SpecWalk == InitWalk /\ [][NextWalk]_vars

\* ------------------------------------------------------------------------
\* Properties
\* ------------------------------------------------------------------------

RECURSIVE Below(_)
\* Every descendant of a Figma node.
Below(node) == UNION { {c} \cup Below(c) : c \in Range(node.children) }

\* The response is a 2xx whose body holds a document for the node ID.
YieldsDocument(res) ==
  /\ res.kind = "http" /\ res.ok
  /\ res.body[1].valid
  /\ res.body[1].node # <<>>
  /\ res.body[1].node[1].document # <<>>

\* The fetch of the node failed: no response, a non-2xx one, or an unreadable body.
FetchFails(res) == res.kind = "error" \/ ~res.ok \/ ~res.body[1].valid

DocumentOf(res) == res.body[1].node[1].document[1]

\* The documents received so far, in node ID list order.
DocsFetched ==
  LET withDoc == SelectSeq(fetched, YieldsDocument)
  IN [k \in 1..Len(withDoc) |-> DocumentOf(withDoc[k])]

\* The per-card spec files written so far, in order.
SpecWrites == SelectSeq(files, LAMBDA f : f.path # SummaryPath)

TokenPresent == env.FIGMA_TOKEN # ""

\* C1: in the batch loop, whatever each node's fetch does, a node ID whose
\* fetch fails gets no '<slug>-specs.json' file and no allSpecs entry (the
\* spec files and allSpecs entries are exactly those of the nodes that
\* returned a document, in list order), and every later node ID is still
\* requested and handled: the loop stops only after the last node ID.
C1_FailureIsolated ==
  (script = "cards" /\ TokenPresent) =>
    /\ Len(SpecWrites) = Len(DocsFetched)
    /\ Len(allSpecs) = Len(DocsFetched)
    /\ \A k \in 1..Len(DocsFetched) :
         /\ SpecWrites[k].path = SpecPath(Slugify(DocsFetched[k].name))
         /\ SpecWrites[k].content.specifications.id = DocsFetched[k].id
         /\ SpecWrites[k].content.specifications.name = DocsFetched[k].name
         /\ allSpecs[k] = SpecWrites[k].content
    /\ (pc = "awaitFetch" =>
          /\ Len(requests) = Len(fetched) + 1
          /\ \A i \in 1..Len(requests) : requests[i] = NodeRequest(nodeIds[i]))
    /\ (pc \in {"returned", "exited"} =>
          /\ Len(fetched) = Len(nodeIds)
          /\ \A i \in 1..Len(nodeIds) : requests[i] = NodeRequest(nodeIds[i]))

\* The first node ID got HTTP 403, the second a document: one spec file, then the summary.
C1_Witness ==
  /\ script = "cards" /\ pc = "exited"
  /\ Len(fetched) = 2
  /\ fetched[1] = Forbidden
  /\ YieldsDocument(fetched[2])
  /\ Len(SpecWrites) = 1
  /\ Len(allSpecs) = 1

\* C3: every non-2xx response to figmaRequest (card extractor) or figmaGet
\* (exporter) raises an error whose message carries both the status code and
\* the reason text of that response.
C3_ErrorCarriesStatusAndReason ==
  /\ script = "cards" =>
       \A i \in 1..Len(fetched) :
         (fetched[i].kind = "http" /\ ~fetched[i].ok) =>
           \E j \in 1..Len(console) :
             /\ console[j].tag = "failed"
             /\ console[j].node = nodeIds[i]
             /\ ToString(fetched[i].status) \in Range(console[j].text)
             /\ fetched[i].statusText \in Range(console[j].text)
  /\ script = "export" =>
       \A ep \in DOMAIN settled :
         (replies[ep] # <<>> /\ replies[ep][1].kind = "http" /\ ~replies[ep][1].ok) =>
           LET message == IF settled[ep].state = "rejected"
                          THEN settled[ep].reason[1].message
                          ELSE settled[ep].value[1].error
           IN /\ ToString(replies[ep][1].status) \in Range(message)
              /\ replies[ep][1].statusText \in Range(message)

MustSucceed == {"file", "styles", "components", "comments"}

Failed(ep) == replies[ep] # <<>> /\ ~replies[ep][1].ok

\* C4: the exporter issues its five requests together and writes nothing
\* before all five are answered; in every order of the answers, once one of
\* the file, styles, components or comments requests has failed, no output
\* file is ever written and the process exit code is 1.
C4_AllOrNothing ==
  script = "export" =>
    /\ (pc = "awaitAll" => Len(requests) = Len(Endpoints) /\ files = <<>>)
    /\ (files # <<>> => \A ep \in Range(Endpoints) : replies[ep] # <<>>)
    /\ ((\E ep \in MustSucceed : Failed(ep)) =>
          /\ files = <<>>
          /\ exitCode = 1
          /\ pc \in {"rejected", "exited"}
          /\ (pc = "exited" => exit = <<1>>))

\* The comments request fails last, after the four others succeeded.
C4_Witness ==
  /\ script = "export" /\ pc = "exited" /\ exit = <<1>>
  /\ Failed("comments")
  /\ \A ep \in Range(Endpoints) \ {"comments"} : replies[ep] # <<>> /\ replies[ep][1].ok
  /\ files = <<>>

\* Only the variables request failed; the four others succeeded.
OnlyVariablesFailed ==
  /\ \A ep \in Range(Endpoints) : replies[ep] # <<>>
  /\ Failed("variables")
  /\ \A ep \in MustSucceed : replies[ep][1].ok

\* C5: when only the variables request fails, the run is not aborted: the
\* five files are written, variables-<fileKey>.json holds {error: <message of
\* the failure>}, and without --nodes the process exits with code 0.
C5_VariablesTolerated ==
  (script = "export" /\ OnlyVariablesFailed) =>
    /\ pc \in {"writing", "awaitNodes", "returned", "rejected", "exited"}
    /\ (pc = "writing" => Len(files) = idx - 1)
    /\ (pc # "writing" =>
          /\ Len(files) >= Len(Endpoints)
          /\ \A k \in 1..Len(Endpoints) : files[k].path = ExportPath(Endpoints[k])
          /\ files[4].content =
               [error |-> figmaGet(EndpointPath("variables"),
                                   replies["variables"][1]).error.message]
          /\ \A k \in {2, 3, 5} : files[k].content = Payload(Endpoints[k])
          /\ files[1].content.document = Payload("file").document)
    /\ (~env.nodes => pc # "rejected" /\ exitCode = 0)
    /\ ((~env.nodes /\ pc = "exited") => exit = <<0>>)

\* The variables request got HTTP 403, the run has ended with code 0 and five files.
C5_Witness ==
  /\ script = "export" /\ OnlyVariablesFailed /\ ~env.nodes
  /\ replies["variables"][1] = Forbidden
  /\ pc = "exited" /\ exit = <<0>>
  /\ Len(files) = 5

\* The run lacks its credential, or the exporter its file key.
ConfigMissing ==
  \/ script = "cards" /\ env.FIGMA_TOKEN = ""
  \/ script = "export" /\ env.FIGMA_PERSONAL_ACCESS_TOKEN = ""
  \/ script = "export" /\ env.fileKey = "" /\ env.FIGMA_FILE_KEY = ""

\* C6: without FIGMA_TOKEN (card extractor), without
\* FIGMA_PERSONAL_ACCESS_TOKEN or without any file key (exporter), the run
\* fails with exit code 1, and no request is issued and no file is written.
C6_ConfigErrorBeforeAnyIO ==
  ConfigMissing =>
    /\ requests = <<>>
    /\ files = <<>>
    /\ dirs = {}
    /\ (pc # "start" => (exit = <<1>> \/ (script = "export" /\ exitCode = 1)))
    /\ (pc = "exited" => exit = <<1>>)
    /\ (pc # "exited" => ENABLED Next)

\* The exporter has its token but no file key, and has exited with code 1.
C6_Witness ==
  /\ script = "export" /\ env.FIGMA_PERSONAL_ACCESS_TOKEN # ""
  /\ ConfigMissing
  /\ pc = "exited" /\ exit = <<1>>

\* The summary file has been written (it is the last write).
SummaryWritten == files # <<>> /\ files[Len(files)].path = SummaryPath

\* C7: with the token present the card extractor never exits with code 1,
\* whatever the per-node outcomes: it returns only after the last node ID,
\* with the summary file written, and then exits with code 0.
C7_ExitCodeIgnoresNodeFailures ==
  (script = "cards" /\ TokenPresent) =>
    /\ exit \in {<<>>, <<0>>}
    /\ (pc \in {"returned", "exited"} => Len(fetched) = Len(nodeIds) /\ SummaryWritten)
    /\ (pc = "exited" => exit = <<0>>)
    /\ (pc # "exited" => ENABLED Next)

\* Both node fetches failed, and the process still exited with code 0.
C7_Witness ==
  /\ script = "cards" /\ TokenPresent /\ pc = "exited" /\ exit = <<0>>
  /\ Len(fetched) = 2 /\ FetchFails(fetched[1]) /\ FetchFails(fetched[2])
  /\ SummaryWritten

\* A node's SOLID first paint, if any, as the colour text recorded for it.
PaintColors(paints) ==
  IF Len(paints) > 0 /\ paints[1].type = "SOLID"
  THEN {figmaColorToCSS(paints[1].color)} ELSE {}

\* The distinct colours of a document: root fill and stroke, descendants' fills.
ColorsOfDoc(doc) ==
  PaintColors(doc.fills) \cup PaintColors(doc.strokes)
    \cup UNION { PaintColors(n.fills) : n \in Below(doc) }

\* The distinct text styles of a document's text descendants.
TypographyOfDoc(doc) ==
  { getTextStyle(n) : n \in { m \in Below(doc) : m.type = "TEXT" /\ m.characters # "" } }

SummaryIndexes == { i \in 1..Len(files) : files[i].path = SummaryPath }

\* C8: extraction-summary.json is written at most once and only once every
\* node ID has been handled, exactly once by the time the function returns;
\* cards has one entry per written spec file, in node ID list order,
\* totalCards is their number, and each entry's children, colors and
\* typography are the numbers of descendants, distinct colours and distinct
\* text styles of that card's document.
C8_SummaryOnceAfterAll ==
  (script = "cards" /\ TokenPresent) =>
    /\ Cardinality(SummaryIndexes) <= 1
    /\ (pc \in {"start", "awaitFetch"} => SummaryIndexes = {})
    /\ (pc \in {"returned", "exited"} => Cardinality(SummaryIndexes) = 1)
    /\ \A i \in SummaryIndexes :
         LET summary == files[i].content
         IN /\ i = Len(files)
            /\ Len(fetched) = Len(nodeIds)
            /\ summary.totalCards = Len(SpecWrites)
            /\ Len(summary.cards) = Len(SpecWrites)
            /\ Len(DocsFetched) = Len(SpecWrites)
            /\ \A k \in 1..Len(summary.cards) :
                 /\ summary.cards[k].name = SpecWrites[k].content.cardName
                 /\ summary.cards[k].name = Slugify(DocsFetched[k].name)
                 /\ summary.cards[k].children = Cardinality(Below(DocsFetched[k]))
                 /\ summary.cards[k].children =
                      Len(SpecWrites[k].content.specifications.children)
                 /\ summary.cards[k].colors = Cardinality(ColorsOfDoc(DocsFetched[k]))
                 /\ summary.cards[k].typography = Cardinality(TypographyOfDoc(DocsFetched[k]))

\* Two cards were written, the first with three descendants, and the summary lists both.
C8_Witness ==
  /\ script = "cards" /\ pc = "returned"
  /\ Len(SpecWrites) = 2
  /\ SummaryWritten
  /\ files[Len(files)].content.totalCards = 2
  /\ files[Len(files)].content.cards[1].children = 3
  /\ files[Len(files)].content.cards[2].colors = 1

\* The walker harness has extracted a document.
Extracted ==
  /\ script = "walk" /\ pc \in {"extracted", "generated"}
  /\ wNode # <<>> /\ wNode[1].document # <<>>

WalkDoc == wNode[1].document[1]

\* Pre-order on paths of child positions: an ancestor before its descendants,
\* an earlier sibling's subtree before a later sibling's.
PathBefore(p, q) ==
  \/ Len(p) < Len(q) /\ \A i \in 1..Len(p) : p[i] = q[i]
  \/ \E i \in 1..Len(p) :
       /\ i <= Len(q)
       /\ \A j \in 1..(i - 1) : p[j] = q[j]
       /\ p[i] < q[i]

\* C9: extractCardSpecs gives a flat child list with exactly one entry per
\* descendant of the document, whatever the node types, in depth-first
\* pre-order; an entry's depth is its distance below the root minus one,
\* consecutive entries go at most one level deeper, and each extraction of a
\* run starts from an empty list.  A node without a document gives null.
C9_FlatPreOrder ==
  /\ (script = "walk" /\ pc \in {"extracted", "generated"} /\ ~Extracted) => wSpecs = <<>>
  /\ Extracted =>
       /\ wSpecs # <<>>
       /\ LET ch == wSpecs[1].children
          IN /\ Len(ch) = Cardinality(Below(WalkDoc))
             /\ { ch[i].id : i \in 1..Len(ch) } = { n.id : n \in Below(WalkDoc) }
             /\ \A i \in 1..Len(ch) :
                  /\ \E n \in Below(WalkDoc) : n.id = ch[i].id /\ n.type = ch[i].type
                  /\ ch[i].depth = Len(ch[i].id) - 1
             /\ \A i, j \in 1..Len(ch) : i < j => PathBefore(ch[i].id, ch[j].id)
             /\ \A i \in 1..(Len(ch) - 1) : ch[i + 1].depth <= ch[i].depth + 1

\* The second document of a run, with a nested child, has been flattened.
C9_Witness ==
  /\ Extracted /\ walks = 2
  /\ Len(wSpecs[1].children) = 3
  /\ wSpecs[1].children[2].depth = 1
  /\ wSpecs[1].children[3].id = <<1, 2>>

\* C2: for the end-to-end document, extractCardSpecs then generateCSSClasses
\* give 2 children, a root block with 'border-radius: 16px;' and a block for
\* the text child with 'font-size: 24px;' and 'font-weight: 700;'.
C2_EndToEnd ==
  (script = "walk" /\ pc = "generated" /\ wNode = NodeOf(ScenarioDoc)) =>
    /\ Len(wSpecs[1].children) = 2
    /\ Len(wBlocks) = 3
    /\ "border-radius: 16px;" \in Range(wBlocks[1].decls)
    /\ wBlocks[3].selector = ".balance-card .label"
    /\ "font-size: 24px;" \in Range(wBlocks[3].decls)
    /\ "font-weight: 700;" \in Range(wBlocks[3].decls)

\* A paint list whose first paint is SOLID and has no color field.
SolidWithoutColor(paints) ==
  Len(paints) > 0 /\ paints[1].type = "SOLID" /\ paints[1].color = <<>>

\* Some paint the extractor reads in the document is SOLID without a color.
HasColorlessPaint(doc) ==
  \/ SolidWithoutColor(doc.fills)
  \/ SolidWithoutColor(doc.strokes)
  \/ \E n \in Below(doc) : SolidWithoutColor(n.fills)

\* The styles derived from SOLID paints without a color are all `token`.
ColorlessStylesAre(token) ==
  /\ SolidWithoutColor(WalkDoc.fills) => wSpecs[1].styles.backgroundColor = <<token>>
  /\ SolidWithoutColor(WalkDoc.strokes) => wSpecs[1].styles.borderColor = <<token>>
  /\ \A i \in 1..Len(wSpecs[1].children) :
       \A n \in Below(WalkDoc) :
         (n.id = wSpecs[1].children[i].id /\ SolidWithoutColor(n.fills)) =>
           wSpecs[1].children[i].styles.backgroundColor = <<token>>

\* C10 as stated: for a SOLID fill or stroke without a color, the style and
\* the entry added to the colour set are both 'var(--fg-text)'.
C10_MissingColorIsFgTextEverywhere ==
  (Extracted /\ HasColorlessPaint(WalkDoc)) =>
    /\ ColorlessStylesAre("var(--fg-text)")
    /\ "var(--fg-text)" \in Range(wSpecs[1].colors)

\* C10 amended: for a SOLID fill or stroke without a color, the
\* backgroundColor / borderColor style is 'var(--fg-text)', while the entry
\* added to the colour set is 'transparent', never the token.
C10_MissingColorStyleIsFgText ==
  (Extracted /\ HasColorlessPaint(WalkDoc)) =>
    /\ ColorlessStylesAre("var(--fg-text)")
    /\ "transparent" \in Range(wSpecs[1].colors)
    /\ "var(--fg-text)" \notin Range(wSpecs[1].colors)

\* A root with colourless fill and stroke and a colourless child has been extracted.
C10_Witness ==
  /\ Extracted
  /\ SolidWithoutColor(WalkDoc.fills) /\ SolidWithoutColor(WalkDoc.strokes)
  /\ \E n \in Below(WalkDoc) : SolidWithoutColor(n.fills)
  /\ wSpecs[1].styles.borderColor = <<"var(--fg-text)">>

====
